---- MODULE Spec2Model ----
(***************************************************************************)
(* The onepassword_vault resource of the 1Password Terraform provider:     *)
(* internal/provider/onepassword_vault_resource.go.                         *)
(*                                                                         *)
(* Strings are sequences of one-character strings, so that fmt.Sprintf,    *)
(* strings.Split and the composite id "vaults/<uuid>" are computed, not    *)
(* assumed.  A types.String is a record with a null flag and a value.      *)
(***************************************************************************)
EXTENDS Naturals, Sequences, FiniteSets, TLC

VARIABLES state, remote, diags, call, prev, prev2, client, codec

vars == <<state, remote, diags, call, prev, prev2, client, codec>>

-----------------------------------------------------------------------------
(* Bounds of the model *)

\* longest import key the operator types
MaxKeyLen == 2

\* longest vault UUID the remote assigns
MaxUUIDLen == 2

\* most vaults the remote holds at once
MaxVaults == 2

\* longest string handed to the identifier codec on its own
MaxCodecLen == 4

-----------------------------------------------------------------------------
(* Strings *)

Chars == {"a", "/"}

RECURSIVE StringsOfLen(_)
StringsOfLen(n) ==
  IF n = 0 THEN {<<>>}
  ELSE {<<c>> \o s : c \in Chars, s \in StringsOfLen(n - 1)}

StringsUpTo(n) == UNION {StringsOfLen(k) : k \in 0..n}

HasSlash(s) == \E i \in 1..Len(s) : s[i] = "/"

\* what the operator may pass to `terraform import`
ImportKeys == StringsUpTo(MaxKeyLen)

\* identifiers the remote service assigns: non-empty, and no "/" in them
UUIDs == {s \in StringsUpTo(MaxUUIDLen) : s # <<>> /\ ~HasSlash(s)}

\* vault names and descriptions the configuration or the remote may carry
Names == {<<"a">>, <<"/">>}

Descriptions == {<<>>, <<"a">>}

\* strings.Split(s, "/"): the segments between the separators, never empty
RECURSIVE Split(_)
Split(s) ==
  IF \A i \in 1..Len(s) : s[i] # "/" THEN <<s>>
  ELSE LET i == CHOOSE k \in 1..Len(s) :
                  s[k] = "/" /\ \A j \in 1..(k - 1) : s[j] # "/"
       IN <<SubSeq(s, 1, i - 1)>> \o Split(SubSeq(s, i + 1, Len(s)))

\* the literal "vaults/" of the format string "vaults/%s"
VaultsPrefix == <<"v", "a", "u", "l", "t", "s", "/">>

-----------------------------------------------------------------------------
(* Identifier codec *)

\* fmt.Sprintf("vaults/%s", vaultUUID)
SprintfVaults(vaultUUID) == VaultsPrefix \o vaultUUID

vaultTerraformID(vault) == VaultsPrefix \o vault.ID

\* the decoder accepting only the namespace "vaults" as the first segment
vaultUUIDFromTerraformID_StrictPrefix(tfID) ==
  LET elements == Split(tfID)
  IN IF Len(elements) # 2 \/ elements[1] # <<"v", "a", "u", "l", "t", "s">>
     THEN <<>>
     ELSE elements[2]

\* the decoder returning the last segment, however many there are
vaultUUIDFromTerraformID_LastSegment(tfID) ==
  LET elements == Split(tfID)
  IN IF Len(elements) < 2 THEN <<>> ELSE elements[Len(elements)]

\* the decoder returning the first segment instead of the second
vaultUUIDFromTerraformID_FirstSegment(tfID) ==
  LET elements == Split(tfID)
  IN IF Len(elements) # 2 THEN <<>> ELSE elements[1]

vaultUUIDFromTerraformID(tfID) ==
  LET elements == Split(tfID)
  IN IF Len(elements) # 2 THEN <<>> ELSE elements[2]

-----------------------------------------------------------------------------
(* types.String and the resource data model *)

StringValue(s) == [kind |-> "known", value |-> s]

StringNull == [kind |-> "null", value |-> <<>>]

StringUnknown == [kind |-> "unknown", value |-> <<>>]

\* types.String.ValueString: "" for a null or unknown value
ValueString(t) == IF t.kind = "known" THEN t.value ELSE <<>>

OnePasswordVaultResourceModel(id, uuid, name, description) ==
  [ID |-> id, UUID |-> uuid, Name |-> name, Description |-> description]

NullModel ==
  OnePasswordVaultResourceModel(StringNull, StringNull, StringNull, StringNull)

\* model.Vault
Vault(id, name, description) ==
  [ID |-> id, Name |-> name, Description |-> description]

ZeroVault == Vault(<<>>, <<>>, <<>>)

\* the orchestrator's state row of this resource instance
NoRow == [present |-> FALSE, row |-> NullModel]

Row(m) == [present |-> TRUE, row |-> m]

-----------------------------------------------------------------------------
(* Schema: what the orchestrator plans from a configuration *)

\* a configuration block: name is required, description may be omitted
Configs ==
  {[Name |-> StringValue(n), Description |-> d] :
     n \in Names, d \in {StringNull} \cup {StringValue(x) : x \in Descriptions}}

NullConfig == [Name |-> StringNull, Description |-> StringNull]

\* a schema default that is not the empty string
DescriptionDefault_NotEmpty == <<"a">>

\* Default: stringdefault.StaticString("")
DescriptionDefault == <<>>

PlanDescription(config) ==
  IF config.Description.kind = "null"
  THEN StringValue(DescriptionDefault)
  ELSE config.Description

\* stringplanmodifier.UseStateForUnknown() on id and uuid
UseStateForUnknown(planned, prior) ==
  IF planned.kind = "unknown" /\ prior.kind # "null" THEN prior ELSE planned

\* the plan of a resource that has no state row: id and uuid are unknown
CreatePlan(config) ==
  OnePasswordVaultResourceModel(StringUnknown, StringUnknown,
                                config.Name, PlanDescription(config))

\* the plan of a resource that has a state row
UpdatePlan(config, prior) ==
  OnePasswordVaultResourceModel(UseStateForUnknown(StringUnknown, prior.ID),
                                UseStateForUnknown(StringUnknown, prior.UUID),
                                config.Name, PlanDescription(config))

-----------------------------------------------------------------------------
(* Client responses and diagnostics *)

\* the error value nil
Nil == "nil"

ErrNotFound == "vault not found"

ErrUnsupported == "not supported with 1Password Connect"

ErrTransport == "connection refused"

Errors == {ErrNotFound, ErrUnsupported, ErrTransport}

Ok(vault) == [err |-> Nil, vault |-> vault]

Failed(err) == [err |-> err, vault |-> ZeroVault]

NoResponse == [err |-> Nil, vault |-> ZeroVault]

isNotFoundError(err) == err = ErrNotFound

\* one error diagnostic: its title, and the error its detail is formatted from
Diagnostic(summary, err) == [summary |-> summary, err |-> err]

\* what req.Plan.Get / req.State.Get append when the value does not decode
DecodeDiagnostic == Diagnostic("Value Conversion Error", Nil)

HasError(ds) == Len(ds) > 0

\* what a handler leaves behind: the state row of the response, the
\* diagnostics it appended, and the number of client calls it issued
Result(st, ds, n) == [state |-> st, diags |-> ds, calls |-> n]

-----------------------------------------------------------------------------
(* Lifecycle handlers.  Each takes the state row the response starts from   *)
(* (prior), the decoded plan or state, whether decoding appended an error,  *)
(* and the client's answer to the one call the handler issues.              *)

\* vault := &model.Vault{Name: ..., Description: ...} sent to CreateVault
CreateRequest(plan) ==
  Vault(<<>>, ValueString(plan.Name), ValueString(plan.Description))

\* Create taking the uuid from the plan, where it is still unknown
Create_UuidFromPlan(prior, plan, decodeErr, resp) ==
  IF decodeErr THEN Result(prior, <<DecodeDiagnostic>>, 0)
  ELSE IF resp.err # Nil
  THEN Result(prior, <<Diagnostic("1Password Vault create error", resp.err)>>, 1)
  ELSE Result(Row(OnePasswordVaultResourceModel(
                    StringValue(vaultTerraformID(resp.vault)),
                    StringValue(ValueString(plan.UUID)),
                    StringValue(resp.vault.Name),
                    StringValue(resp.vault.Description))),
              <<>>, 1)

\* Create writing the planned name instead of the returned one
Create_NameFromPlan(prior, plan, decodeErr, resp) ==
  IF decodeErr THEN Result(prior, <<DecodeDiagnostic>>, 0)
  ELSE IF resp.err # Nil
  THEN Result(prior, <<Diagnostic("1Password Vault create error", resp.err)>>, 1)
  ELSE Result(Row(OnePasswordVaultResourceModel(
                    StringValue(vaultTerraformID(resp.vault)),
                    StringValue(resp.vault.ID),
                    plan.Name,
                    StringValue(resp.vault.Description))),
              <<>>, 1)

Create(prior, plan, decodeErr, resp) ==
  IF decodeErr THEN Result(prior, <<DecodeDiagnostic>>, 0)
  ELSE IF resp.err # Nil
  THEN Result(prior, <<Diagnostic("1Password Vault create error", resp.err)>>, 1)
  ELSE Result(Row(OnePasswordVaultResourceModel(
                    StringValue(vaultTerraformID(resp.vault)),
                    StringValue(resp.vault.ID),
                    StringValue(resp.vault.Name),
                    StringValue(resp.vault.Description))),
              <<>>, 1)

\* the UUID sent to GetVault
ReadRequest(st) == vaultUUIDFromTerraformID(ValueString(st.ID))

\* Read without the not-found branch: every error is a read error
Read_NotFoundIsError(prior, st, decodeErr, resp) ==
  IF decodeErr THEN Result(prior, <<DecodeDiagnostic>>, 0)
  ELSE IF resp.err # Nil
  THEN Result(prior, <<Diagnostic("1Password Vault read error", resp.err)>>, 1)
  ELSE Result(Row(OnePasswordVaultResourceModel(
                    StringValue(vaultTerraformID(resp.vault)),
                    StringValue(resp.vault.ID),
                    StringValue(resp.vault.Name),
                    StringValue(resp.vault.Description))),
              <<>>, 1)

\* Read that keeps the row it was given when the vault is not found
Read_NotFoundKeepsRow(prior, st, decodeErr, resp) ==
  IF decodeErr THEN Result(prior, <<DecodeDiagnostic>>, 0)
  ELSE IF resp.err # Nil
  THEN IF isNotFoundError(resp.err)
       THEN Result(prior, <<>>, 1)
       ELSE Result(prior, <<Diagnostic("1Password Vault read error", resp.err)>>, 1)
  ELSE Result(Row(OnePasswordVaultResourceModel(
                    StringValue(vaultTerraformID(resp.vault)),
                    StringValue(resp.vault.ID),
                    StringValue(resp.vault.Name),
                    StringValue(resp.vault.Description))),
              <<>>, 1)

\* Read that refreshes id, uuid and name but leaves description as it was
Read_KeepsDescription(prior, st, decodeErr, resp) ==
  IF decodeErr THEN Result(prior, <<DecodeDiagnostic>>, 0)
  ELSE IF resp.err # Nil
  THEN IF isNotFoundError(resp.err)
       THEN Result(NoRow, <<>>, 1)
       ELSE Result(prior, <<Diagnostic("1Password Vault read error", resp.err)>>, 1)
  ELSE Result(Row(OnePasswordVaultResourceModel(
                    StringValue(vaultTerraformID(resp.vault)),
                    StringValue(resp.vault.ID),
                    StringValue(resp.vault.Name),
                    st.Description)),
              <<>>, 1)

Read(prior, st, decodeErr, resp) ==
  IF decodeErr THEN Result(prior, <<DecodeDiagnostic>>, 0)
  ELSE IF resp.err # Nil
  THEN IF isNotFoundError(resp.err)
       THEN Result(NoRow, <<>>, 1)
       ELSE Result(prior, <<Diagnostic("1Password Vault read error", resp.err)>>, 1)
  ELSE Result(Row(OnePasswordVaultResourceModel(
                    StringValue(vaultTerraformID(resp.vault)),
                    StringValue(resp.vault.ID),
                    StringValue(resp.vault.Name),
                    StringValue(resp.vault.Description))),
              <<>>, 1)

\* the request built with the description in the place of the name
UpdateRequest_DescriptionAsName(plan) ==
  Vault(ValueString(plan.UUID), ValueString(plan.Description),
        ValueString(plan.Description))

\* vault := &model.Vault{ID: ..., Name: ..., Description: ...} sent to UpdateVault
UpdateRequest(plan) ==
  Vault(ValueString(plan.UUID), ValueString(plan.Name),
        ValueString(plan.Description))

\* Update with the return after the error diagnostic missing: the plan is
\* written to state although the call failed
Update_WritesPlanOnError(prior, plan, decodeErr, resp) ==
  IF decodeErr THEN Result(prior, <<DecodeDiagnostic>>, 0)
  ELSE IF resp.err # Nil
  THEN Result(Row(plan),
              <<Diagnostic("1Password Vault update error", resp.err)>>, 1)
  ELSE Result(Row(OnePasswordVaultResourceModel(
                    StringValue(vaultTerraformID(resp.vault)),
                    StringValue(resp.vault.ID),
                    StringValue(resp.vault.Name),
                    StringValue(resp.vault.Description))),
              <<>>, 1)

\* Update writing the bare uuid as the id
Update_IdWithoutPrefix(prior, plan, decodeErr, resp) ==
  IF decodeErr THEN Result(prior, <<DecodeDiagnostic>>, 0)
  ELSE IF resp.err # Nil
  THEN Result(prior, <<Diagnostic("1Password Vault update error", resp.err)>>, 1)
  ELSE Result(Row(OnePasswordVaultResourceModel(
                    StringValue(resp.vault.ID),
                    StringValue(resp.vault.ID),
                    StringValue(resp.vault.Name),
                    StringValue(resp.vault.Description))),
              <<>>, 1)

Update(prior, plan, decodeErr, resp) ==
  IF decodeErr THEN Result(prior, <<DecodeDiagnostic>>, 0)
  ELSE IF resp.err # Nil
  THEN Result(prior, <<Diagnostic("1Password Vault update error", resp.err)>>, 1)
  ELSE Result(Row(OnePasswordVaultResourceModel(
                    StringValue(vaultTerraformID(resp.vault)),
                    StringValue(resp.vault.ID),
                    StringValue(resp.vault.Name),
                    StringValue(resp.vault.Description))),
              <<>>, 1)

\* the UUID sent to DeleteVault
DeleteRequest(st) == ValueString(st.UUID)

\* Delete writes nothing; the orchestrator drops the row of a Delete that
\* returned without an error diagnostic
RemovedByOrchestrator(prior, ds) == IF HasError(ds) THEN prior ELSE NoRow

\* Delete with the title of the update error
Delete_UpdateTitle(prior, st, decodeErr, resp) ==
  IF decodeErr
  THEN Result(RemovedByOrchestrator(prior, <<DecodeDiagnostic>>),
              <<DecodeDiagnostic>>, 0)
  ELSE IF resp.err # Nil
  THEN LET ds == <<Diagnostic("1Password Vault update error", resp.err)>>
       IN Result(RemovedByOrchestrator(prior, ds), ds, 1)
  ELSE Result(RemovedByOrchestrator(prior, <<>>), <<>>, 1)

\* Delete without the return after a failed decode: the client is called
\* with the zero value
Delete_CallsAfterDecodeError(prior, st, decodeErr, resp) ==
  LET decoded == IF decodeErr THEN <<DecodeDiagnostic>> ELSE <<>>
      ds == IF resp.err # Nil
            THEN decoded \o <<Diagnostic("1Password Vault delete error", resp.err)>>
            ELSE decoded
  IN Result(RemovedByOrchestrator(prior, ds), ds, 1)

\* Delete that takes a vault that is already gone for deleted
Delete_NotFoundIsSuccess(prior, st, decodeErr, resp) ==
  IF decodeErr
  THEN Result(RemovedByOrchestrator(prior, <<DecodeDiagnostic>>),
              <<DecodeDiagnostic>>, 0)
  ELSE IF resp.err # Nil /\ ~isNotFoundError(resp.err)
  THEN LET ds == <<Diagnostic("1Password Vault delete error", resp.err)>>
       IN Result(RemovedByOrchestrator(prior, ds), ds, 1)
  ELSE Result(RemovedByOrchestrator(prior, <<>>), <<>>, 1)

Delete(prior, st, decodeErr, resp) ==
  IF decodeErr
  THEN Result(RemovedByOrchestrator(prior, <<DecodeDiagnostic>>),
              <<DecodeDiagnostic>>, 0)
  ELSE IF resp.err # Nil
  THEN LET ds == <<Diagnostic("1Password Vault delete error", resp.err)>>
       IN Result(RemovedByOrchestrator(prior, ds), ds, 1)
  ELSE Result(RemovedByOrchestrator(prior, <<>>), <<>>, 1)

\* resp.State.SetAttribute on a state that holds nothing yet
SetAttribute(m, attr, value) == [m EXCEPT ![attr] = StringValue(value)]

\* ImportState writing the bare import key as the id
ImportState_IdWithoutPrefix(key) ==
  LET vaultUUID == key
      s1 == SetAttribute(NullModel, "ID", vaultUUID)
      s2 == SetAttribute(s1, "UUID", vaultUUID)
  IN Result(Row(s2), <<>>, 0)

ImportState(key) ==
  LET vaultUUID == key
      s1 == SetAttribute(NullModel, "ID", SprintfVaults(vaultUUID))
      s2 == SetAttribute(s1, "UUID", vaultUUID)
  IN Result(Row(s2), <<>>, 0)

-----------------------------------------------------------------------------
(* Configure: the client the handlers call                                  *)

\* r.client before Configure has set it
NilClient == "nil"

\* req.ProviderData: absent, a value that satisfies onepassword.Client, or a
\* value of another type
NilData == "nil"

ClientData == "onepassword.Client"

OtherData == "string"

ProviderData == {NilData, ClientData, OtherData}

\* the type assertion req.ProviderData.(onepassword.Client)
IsClient(data) == data = ClientData

\* what Configure leaves behind: r.client and the diagnostics it appended
Configured(c, ds) == [client |-> c, diags |-> ds]

\* Configure assigning the result of the type assertion before testing ok:
\* a failed assertion stores the nil client
Configure_AssignsBeforeCheck(rclient, data) ==
  IF data = NilData THEN Configured(rclient, <<>>)
  ELSE IF ~IsClient(data)
  THEN Configured(NilClient,
                  <<Diagnostic("Unexpected Resource Configure Type", data)>>)
  ELSE Configured(data, <<>>)

Configure(rclient, data) ==
  IF data = NilData THEN Configured(rclient, <<>>)
  ELSE IF ~IsClient(data)
  THEN Configured(rclient,
                  <<Diagnostic("Unexpected Resource Configure Type", data)>>)
  ELSE Configured(data, <<>>)

-----------------------------------------------------------------------------
(* The remote service behind the Client: a store of vaults keyed by UUID    *)

NoVault == [exists |-> FALSE, Name |-> <<>>, Description |-> <<>>]

Stored(name, description) ==
  [exists |-> TRUE, Name |-> name, Description |-> description]

EmptyRemote == [u \in UUIDs |-> NoVault]

Holds(rem, uuid) == uuid \in UUIDs /\ rem[uuid].exists

VaultOf(rem, uuid) == Vault(uuid, rem[uuid].Name, rem[uuid].Description)

VaultCount(rem) == Cardinality({u \in UUIDs : rem[u].exists})

\* an answer of the client together with the store it leaves behind
Answer(resp, rem) == [resp |-> resp, remote |-> rem]

Refusals(rem, errs) == {Answer(Failed(e), rem) : e \in errs}

CreateVault(rem, vault) ==
  Refusals(rem, {ErrTransport})
  \cup {Answer(Ok(Vault(u, vault.Name, vault.Description)),
               [rem EXCEPT ![u] = Stored(vault.Name, vault.Description)]) :
          u \in {x \in UUIDs : ~rem[x].exists /\ VaultCount(rem) < MaxVaults}}

GetVault(rem, uuid) ==
  IF Holds(rem, uuid)
  THEN {Answer(Ok(VaultOf(rem, uuid)), rem)} \cup Refusals(rem, {ErrTransport})
  ELSE Refusals(rem, {ErrNotFound, ErrTransport})

UpdateVault(rem, vault) ==
  IF Holds(rem, vault.ID)
  THEN {Answer(Ok(vault),
               [rem EXCEPT ![vault.ID] = Stored(vault.Name, vault.Description)])}
       \cup Refusals(rem, {ErrTransport})
  ELSE Refusals(rem, {ErrNotFound, ErrTransport})

DeleteVault(rem, uuid) ==
  IF Holds(rem, uuid)
  THEN {Answer(NoResponse, [rem EXCEPT ![uuid] = NoVault])}
       \cup Refusals(rem, {ErrTransport})
  ELSE Refusals(rem, {ErrNotFound, ErrTransport})

\* a Client of which nothing is known but its signature: any vault, any error
AnyVault == {Vault(u, n, d) : u \in UUIDs, n \in Names, d \in Descriptions}

AnyVaultAnswer(rem) ==
  {Answer(Ok(v), rem) : v \in AnyVault} \cup Refusals(rem, Errors)

AnyErrorAnswer(rem) == {Answer(NoResponse, rem)} \cup Refusals(rem, Errors)

-----------------------------------------------------------------------------
(* The record of handler invocations *)

Handlers == {"Create", "Read", "Update", "Delete", "ImportState"}

\* the last invocation: its inputs, the client's answer, the row before it
Invocation(op, config, key, decodeErr, resp, pre, calls) ==
  [op |-> op, config |-> config, key |-> key, decodeErr |-> decodeErr,
   resp |-> resp, pre |-> pre, calls |-> calls,
   data |-> NilData, client |-> client]

NoInvocation ==
  Invocation("none", NullConfig, <<>>, FALSE, NoResponse, NoRow, 0)

\* what is kept of the invocation before the last one; of an Update, the
\* name it asked for, whether that changed the name of the row it started
\* from, and the uuid of that row
Summary(c, ds) ==
  [op |-> c.op, ok |-> ~HasError(ds),
   name |-> IF c.op = "Update" THEN ValueString(c.config.Name) ELSE <<>>,
   renamed |-> /\ c.op = "Update"
               /\ ValueString(c.config.Name) # ValueString(c.pre.row.Name),
   uuid |-> IF c.op = "Update" THEN ValueString(c.pre.row.UUID) ELSE <<>>]

NoSummary ==
  [op |-> "none", ok |-> FALSE, name |-> <<>>, renamed |-> FALSE, uuid |-> <<>>]

NoBrief == [op |-> "none", ok |-> FALSE]

\* what is kept of the invocation before that: whether it was a Create that
\* returned without an error diagnostic
Brief(p) == IF p.op = "Create" /\ p.ok THEN [op |-> p.op, ok |-> p.ok] ELSE NoBrief

\* a Configure invocation: the provider data it was given; client is
\* r.client as it was before
ConfigureInvocation(data) ==
  [Invocation("Configure", NullConfig, <<>>, FALSE, NoResponse, state, 0)
     EXCEPT !.data = data]

\* the identifier codec applied on its own: the uuid composed (when the id
\* was composed), the id handed to the decoder, and what the decoder returned
Codec(composed, uuid, tfID, decoded, out) ==
  [composed |-> composed, uuid |-> uuid, tfID |-> tfID,
   decoded |-> decoded, out |-> out]

NoCodec == Codec(FALSE, <<>>, <<>>, FALSE, <<>>)

Init ==
  /\ client = NilClient
  /\ codec = NoCodec
  /\ state = NoRow
  /\ remote = EmptyRemote
  /\ diags = <<>>
  /\ call = NoInvocation
  /\ prev = NoSummary
  /\ prev2 = NoBrief

\* one handler invocation: op ran with these inputs, the client answered
\* ans (not consulted when decoding failed), and the handler left res
Invoke(op, config, key, decodeErr, ans, res) ==
  /\ client # NilClient
  /\ UNCHANGED <<client, codec>>
  /\ state' = res.state
  /\ diags' = res.diags
  /\ remote' = IF res.calls = 0 THEN remote ELSE ans.remote
  /\ call' = Invocation(op, config, key, decodeErr,
                        IF res.calls = 0 THEN NoResponse ELSE ans.resp,
                        state, res.calls)

\* the two invocations before the last one are remembered as well
Remember ==
  /\ prev' = Summary(call, diags)
  /\ prev2' = Brief(prev)

\* something other than a handler happened: the record starts over
OutOfBand(rem) ==
  /\ remote' = rem
  /\ call' = NoInvocation
  /\ prev' = NoSummary
  /\ prev2' = NoBrief
  /\ diags' = <<>>
  /\ UNCHANGED <<state, client, codec>>

\* the configure hook of the orchestrator
InvokeConfigure(data) ==
  LET res == Configure(client, data)
  IN /\ client' = res.client
     /\ diags' = res.diags
     /\ call' = ConfigureInvocation(data)
     /\ UNCHANGED <<state, remote, codec>>

-----------------------------------------------------------------------------
(* Spec: the handlers against a Client that may answer anything *)

CallCreate ==
  /\ ~state.present
  /\ \E config \in Configs, decodeErr \in BOOLEAN, ans \in AnyVaultAnswer(remote) :
       Invoke("Create", config, <<>>, decodeErr, ans,
              Create(state, CreatePlan(config), decodeErr, ans.resp))
  /\ UNCHANGED <<prev, prev2>>

CallRead ==
  /\ state.present
  /\ \E decodeErr \in BOOLEAN, ans \in AnyVaultAnswer(remote) :
       Invoke("Read", NullConfig, <<>>, decodeErr, ans,
              Read(state, state.row, decodeErr, ans.resp))
  /\ UNCHANGED <<prev, prev2>>

CallUpdate ==
  /\ state.present
  /\ \E config \in Configs, decodeErr \in BOOLEAN, ans \in AnyVaultAnswer(remote) :
       Invoke("Update", config, <<>>, decodeErr, ans,
              Update(state, UpdatePlan(config, state.row), decodeErr, ans.resp))
  /\ UNCHANGED <<prev, prev2>>

CallDelete ==
  /\ state.present
  /\ \E decodeErr \in BOOLEAN, ans \in AnyErrorAnswer(remote) :
       Invoke("Delete", NullConfig, <<>>, decodeErr, ans,
              Delete(state, state.row, decodeErr, ans.resp))
  /\ UNCHANGED <<prev, prev2>>

CallImportState ==
  /\ ~state.present
  /\ \E key \in ImportKeys :
       Invoke("ImportState", NullConfig, key, FALSE, Answer(NoResponse, remote),
              ImportState(key))
  /\ UNCHANGED <<prev, prev2>>

CallConfigure ==
  /\ \E data \in ProviderData : InvokeConfigure(data)
  /\ UNCHANGED <<prev, prev2>>

Next ==
  \/ CallConfigure
  \/ CallCreate \/ CallRead \/ CallUpdate \/ CallDelete \/ CallImportState

Spec == Init /\ [][Next]_vars

-----------------------------------------------------------------------------
(* SpecRemote: the handlers against a Client backed by the remote store,    *)
(* with vaults created, renamed and deleted behind the provider's back      *)

RemoteCreate ==
  /\ ~state.present
  /\ \E config \in Configs, decodeErr \in BOOLEAN :
       LET plan == CreatePlan(config)
       IN \E ans \in CreateVault(remote, CreateRequest(plan)) :
            Invoke("Create", config, <<>>, decodeErr, ans,
                   Create(state, plan, decodeErr, ans.resp))
  /\ Remember

RemoteRead ==
  /\ state.present
  /\ \E decodeErr \in BOOLEAN :
       \E ans \in GetVault(remote, ReadRequest(state.row)) :
         Invoke("Read", NullConfig, <<>>, decodeErr, ans,
                Read(state, state.row, decodeErr, ans.resp))
  /\ Remember

RemoteUpdate ==
  /\ state.present
  /\ \E config \in Configs, decodeErr \in BOOLEAN :
       LET plan == UpdatePlan(config, state.row)
       IN \E ans \in UpdateVault(remote, UpdateRequest(plan)) :
            Invoke("Update", config, <<>>, decodeErr, ans,
                   Update(state, plan, decodeErr, ans.resp))
  /\ Remember

RemoteDelete ==
  /\ state.present
  /\ \E decodeErr \in BOOLEAN :
       \E ans \in DeleteVault(remote, DeleteRequest(state.row)) :
         Invoke("Delete", NullConfig, <<>>, decodeErr, ans,
                Delete(state, state.row, decodeErr, ans.resp))
  /\ Remember

RemoteImportState ==
  /\ ~state.present
  /\ \E key \in ImportKeys :
       Invoke("ImportState", NullConfig, key, FALSE, Answer(NoResponse, remote),
              ImportState(key))
  /\ Remember

OobCreate ==
  /\ VaultCount(remote) < MaxVaults
  /\ \E u \in UUIDs, n \in Names, d \in Descriptions :
       /\ ~remote[u].exists
       /\ OutOfBand([remote EXCEPT ![u] = Stored(n, d)])

OobUpdate ==
  \E u \in UUIDs, n \in Names, d \in Descriptions :
    /\ remote[u].exists
    /\ remote[u] # Stored(n, d)
    /\ OutOfBand([remote EXCEPT ![u] = Stored(n, d)])

OobDelete ==
  \E u \in UUIDs :
    /\ remote[u].exists
    /\ OutOfBand([remote EXCEPT ![u] = NoVault])

\* the orchestrator configures the resource before it invokes its handlers
RemoteConfigure ==
  /\ client = NilClient
  /\ \E data \in ProviderData : InvokeConfigure(data)
  /\ Remember

NextRemote ==
  \/ RemoteConfigure
  \/ RemoteCreate \/ RemoteRead \/ RemoteUpdate \/ RemoteDelete
  \/ RemoteImportState
  \/ OobCreate \/ OobUpdate \/ OobDelete

SpecRemote == Init /\ [][NextRemote]_vars

-----------------------------------------------------------------------------
(* SpecCodec: the identifier codec applied to strings of any shape *)

CodecInputs == StringsUpTo(MaxCodecLen)

\* fmt.Sprintf("vaults/%s", vaultUUID) of a uuid of any shape
CodecCompose ==
  /\ \E u \in CodecInputs :
       codec' = Codec(TRUE, u, SprintfVaults(u), FALSE, <<>>)
  /\ UNCHANGED <<state, remote, diags, call, prev, prev2, client>>

\* an id of any shape, as a state row may hold it
CodecInput ==
  /\ \E s \in CodecInputs : codec' = Codec(FALSE, <<>>, s, FALSE, <<>>)
  /\ UNCHANGED <<state, remote, diags, call, prev, prev2, client>>

CodecDecode ==
  /\ ~codec.decoded
  /\ codec' = [codec EXCEPT !.decoded = TRUE,
                            !.out = vaultUUIDFromTerraformID(codec.tfID)]
  /\ UNCHANGED <<state, remote, diags, call, prev, prev2, client>>

NextCodec == CodecCompose \/ CodecInput \/ CodecDecode

SpecCodec == Init /\ [][NextCodec]_vars

-----------------------------------------------------------------------------
(* Properties *)

\* the last invocation was handler op, it issued its client call and the
\* call came back without an error
Succeeded(op) == call.op = op /\ call.calls = 1 /\ call.resp.err = Nil

\* the last invocation was handler op and its client call came back with an
\* error
RemoteFailed(op) == call.op = op /\ call.calls = 1 /\ call.resp.err # Nil

\* the last invocation was a Read that issued its client call and returned
\* without a diagnostic
ReadCompleted == call.op = "Read" /\ call.calls = 1 /\ diags = <<>>

\* C1: every state row a handler has written has id = "vaults/" + uuid
C1_IdIsComposeOfUuid ==
  state.present =>
    /\ state.row.ID.kind = "known"
    /\ state.row.UUID.kind = "known"
    /\ state.row.ID.value = VaultsPrefix \o state.row.UUID.value

C1_Witness ==
  /\ Succeeded("Update")
  /\ state.present
  /\ state.row.UUID # call.pre.row.UUID

\* C2: a Read whose GetVault fails with a not-found error removes the state
\* row and emits no diagnostic
C2_ReadNotFoundDropsRow ==
  (RemoteFailed("Read") /\ isNotFoundError(call.resp.err)) =>
    (~state.present /\ state = NoRow /\ diags = <<>>)

C2_Witness ==
  /\ RemoteFailed("Read")
  /\ isNotFoundError(call.resp.err)
  /\ call.pre.present
  /\ call.pre.row.Name.kind = "known"

\* C3: a handler whose client call fails writes no state: Create leaves no
\* row, Read (other than not-found), Update and Delete leave the prior row as
\* it was, and a Read that fails with not-found removes the row
C3_NoStateWriteOnRemoteError ==
  \A op \in Handlers :
    RemoteFailed(op) =>
      IF op = "Read" /\ isNotFoundError(call.resp.err)
      THEN state = NoRow
      ELSE /\ state = call.pre
           /\ (op = "Create" => ~state.present)
           /\ (op # "Create" => state.present)

C3_Witness ==
  /\ RemoteFailed("Update")
  /\ isNotFoundError(call.resp.err)
  /\ state.present
  /\ ValueString(call.config.Name) # ValueString(state.row.Name)

\* C4 as stated: a successful Update leaves uuid and id as they were in the
\* prior row, whatever vault the remote returns
C4_UpdateKeepsUuidWhateverReturned ==
  Succeeded("Update") =>
    /\ state.row.UUID = call.pre.row.UUID
    /\ state.row.ID = call.pre.row.ID

\* C4 as amended: a successful Update writes uuid and id from the vault the
\* remote returns; they equal the prior row's uuid and id when the returned
\* vault carries the uuid the request was sent with
C4_UpdateWritesReturnedUuid ==
  Succeeded("Update") =>
    /\ state.present
    /\ state.row.UUID = StringValue(call.resp.vault.ID)
    /\ state.row.ID = StringValue(VaultsPrefix \o call.resp.vault.ID)
    /\ (call.resp.vault.ID = ValueString(call.pre.row.UUID) =>
          /\ state.row.UUID = call.pre.row.UUID
          /\ state.row.ID = call.pre.row.ID)

C4_Witness ==
  /\ Succeeded("Update")
  /\ call.resp.vault.ID = ValueString(call.pre.row.UUID)
  /\ state.row.Name # call.pre.row.Name
  /\ state.row.UUID = call.pre.row.UUID

\* C5: a materialized state row has a non-empty uuid
C5_UuidNeverEmpty ==
  state.present => ValueString(state.row.UUID) # <<>>

\* C6: a Read that completes without a diagnostic leaves no state row when
\* the remote holds no vault with the row's uuid, and otherwise a row whose
\* uuid, name and description are those of the remote vault with that uuid
C6_ReadMirrorsRemote ==
  ReadCompleted =>
    LET u == ValueString(call.pre.row.UUID)
    IN IF Holds(remote, u)
       THEN /\ state.present
            /\ state.row.UUID = StringValue(u)
            /\ state.row.Name = StringValue(remote[u].Name)
            /\ state.row.Description = StringValue(remote[u].Description)
       ELSE ~state.present

\* a vault deleted behind the provider's back, then a Read that removes the row
C6_Witness ==
  /\ ReadCompleted
  /\ call.pre.row.Name.kind = "known"
  /\ ~Holds(remote, ValueString(call.pre.row.UUID))
  /\ VaultCount(remote) > 0
  /\ ~state.present

\* C7: Create followed by Read yields the uuid, name and description of the
\* row Create wrote
C7_CreateThenRead ==
  (ReadCompleted /\ prev.op = "Create" /\ prev.ok) =>
    /\ state.present
    /\ state.row.UUID = call.pre.row.UUID
    /\ state.row.Name = call.pre.row.Name
    /\ state.row.Description = call.pre.row.Description

C7_Witness ==
  /\ Succeeded("Read") /\ prev.op = "Create" /\ prev.ok
  /\ state.present
  /\ Len(ValueString(state.row.UUID)) = MaxUUIDLen
  /\ VaultCount(remote) > 1

\* C8: Create, then Update with a changed name, then Read yields the updated
\* name and the uuid Create wrote
C8_CreateUpdateRead ==
  (/\ ReadCompleted
   /\ prev.op = "Update" /\ prev.ok /\ prev.renamed
   /\ prev2.op = "Create" /\ prev2.ok) =>
    /\ state.present
    /\ state.row.Name = StringValue(prev.name)
    /\ state.row.UUID = StringValue(prev.uuid)

C8_Witness ==
  /\ Succeeded("Read")
  /\ prev.op = "Update" /\ prev.ok /\ prev.renamed
  /\ prev2.op = "Create" /\ prev2.ok
  /\ state.present
  /\ ValueString(state.row.Name) = prev.name

\* C9: Import with key u issues no client call and writes id = "vaults/" + u
\* and uuid = u with name and description left null; the Read that follows
\* writes the name and description of the remote vault whose UUID is u
C9_ImportThenRead ==
  /\ call.op = "ImportState" =>
       /\ call.calls = 0
       /\ state.present
       /\ state.row.ID = StringValue(VaultsPrefix \o call.key)
       /\ state.row.UUID = StringValue(call.key)
       /\ state.row.Name = StringNull
       /\ state.row.Description = StringNull
  /\ (ReadCompleted /\ prev.op = "ImportState") =>
       LET u == ValueString(call.pre.row.UUID)
       IN Holds(remote, u) =>
            /\ state.present
            /\ state.row.Name = StringValue(remote[u].Name)
            /\ state.row.Description = StringValue(remote[u].Description)

C9_Witness ==
  /\ Succeeded("Read") /\ prev.op = "ImportState"
  /\ Holds(remote, ValueString(call.pre.row.UUID))
  /\ call.pre.row.Name = StringNull
  /\ state.present
  /\ state.row.Name.kind = "known"

\* C10: a successful Create whose configuration omits description writes a
\* state row with description ""
C10_OmittedDescriptionIsEmpty ==
  (Succeeded("Create") /\ call.config.Description.kind = "null") =>
    /\ state.present
    /\ state.row.Description = StringValue(<<>>)

C10_Witness ==
  /\ Succeeded("Create")
  /\ call.config.Description.kind = "null"
  /\ state.present
  /\ remote[ValueString(state.row.UUID)].Description = <<>>

\* the title each handler gives the diagnostic of a failed client call
ErrorTitle(op) ==
  CASE op = "Create" -> "1Password Vault create error"
    [] op = "Read" -> "1Password Vault read error"
    [] op = "Update" -> "1Password Vault update error"
    [] op = "Delete" -> "1Password Vault delete error"

\* C11: a handler whose client call fails (other than a Read that fails with
\* not-found) emits exactly one error diagnostic, titled with its own error
\* title and carrying the underlying error; a Create refused with "not
\* supported with 1Password Connect" leaves no state
C11_OneDiagnosticPerRemoteError ==
  \A op \in {"Create", "Read", "Update", "Delete"} :
    (RemoteFailed(op) /\ ~(op = "Read" /\ isNotFoundError(call.resp.err))) =>
      /\ Len(diags) = 1
      /\ diags[1].summary = ErrorTitle(op)
      /\ diags[1].err = call.resp.err
      /\ (op = "Create" => ~state.present)

C11_Witness ==
  /\ RemoteFailed("Create")
  /\ call.resp.err = ErrUnsupported
  /\ Len(diags) = 1
  /\ ~state.present

\* the row a handler writes from the vault v the client returned
RowOfVault(v) ==
  Row(OnePasswordVaultResourceModel(StringValue(VaultsPrefix \o v.ID),
                                    StringValue(v.ID),
                                    StringValue(v.Name),
                                    StringValue(v.Description)))

\* C12: the state Create, Read and Update write after a successful client
\* call holds the id, uuid, name and description of the returned vault, not
\* those of the request
C12_ReturnedValuesPreferred ==
  \A op \in {"Create", "Read", "Update"} :
    Succeeded(op) => state = RowOfVault(call.resp.vault)

C12_Witness ==
  /\ Succeeded("Create")
  /\ call.resp.vault.Name # ValueString(call.config.Name)
  /\ call.resp.vault.Description # ValueString(PlanDescription(call.config))
  /\ state.present

\* C13: after a successful Create or a successful Read, also one that
\* follows Import, id, uuid, name and description are all set
C13_AllFieldsKnown ==
  (Succeeded("Create") \/ Succeeded("Read")) =>
    /\ state.present
    /\ state.row.ID.kind = "known"
    /\ state.row.UUID.kind = "known"
    /\ state.row.Name.kind = "known"
    /\ state.row.Description.kind = "known"

\* a Read of the row ImportState left, whose name and description are null
C13_Witness ==
  /\ Succeeded("Read")
  /\ call.pre.row.Name = StringNull
  /\ call.pre.row.Description = StringNull
  /\ state.present

\* C18: Create, Read, Update and Delete issue exactly one client call when
\* decoding produced no error and none when it did; ImportState issues none
C18_AtMostOneRemoteCall ==
  /\ call.calls <= 1
  /\ \A op \in {"Create", "Read", "Update", "Delete"} :
       call.op = op => call.calls = (IF call.decodeErr THEN 0 ELSE 1)
  /\ call.op = "ImportState" => call.calls = 0

C18_Witness ==
  /\ call.op = "Delete"
  /\ call.decodeErr
  /\ call.calls = 0
  /\ state.present

\* C19: an Update or Delete whose client call fails with a not-found error
\* emits its own error diagnostic and leaves the state row in place
C19_OnlyReadTreatsNotFoundAsDrift ==
  \A op \in {"Update", "Delete"} :
    (RemoteFailed(op) /\ isNotFoundError(call.resp.err)) =>
      /\ state.present
      /\ state = call.pre
      /\ diags = <<Diagnostic(ErrorTitle(op), call.resp.err)>>

\* the vault of a refreshed row is gone from the remote, and Delete fails
C19_Witness ==
  /\ RemoteFailed("Delete")
  /\ isNotFoundError(call.resp.err)
  /\ state.present
  /\ state.row.Name.kind = "known"
  /\ ~Holds(remote, ValueString(state.row.UUID))

\* C14: Configure with provider data that is no Client emits "Unexpected
\* Resource Configure Type" and leaves the client as it was; with absent
\* provider data it emits nothing and leaves the client as it was; only
\* provider data that is a Client sets the client
C14_ConfigureTypeMismatch ==
  call.op = "Configure" =>
    /\ call.data = NilData => (diags = <<>> /\ client = call.client)
    /\ call.data = OtherData =>
         /\ Len(diags) = 1
         /\ diags[1].summary = "Unexpected Resource Configure Type"
         /\ diags[1].err = call.data
         /\ client = call.client
    /\ call.data = ClientData => (diags = <<>> /\ client = call.data)
    /\ client # call.client => call.data = ClientData

C14_Witness ==
  /\ call.op = "Configure"
  /\ call.data = OtherData
  /\ call.client = NilClient
  /\ client = NilClient
  /\ Len(diags) = 1

\* C15 as stated: decoding the composed id of a non-empty uuid gives the
\* uuid back, also when the uuid holds "/"
C15_RoundTripAnyUuid ==
  (codec.composed /\ codec.decoded /\ codec.uuid # <<>>) =>
    codec.out = codec.uuid

\* C15 as amended: decoding the composed id of a uuid that holds no "/"
\* gives the uuid back; for a uuid that holds "/" the decoder returns ""
C15_RoundTripSlashFreeUuid ==
  (codec.composed /\ codec.decoded) =>
    IF \E i \in 1..Len(codec.uuid) : codec.uuid[i] = "/"
    THEN codec.out = <<>>
    ELSE codec.out = codec.uuid

C15_Witness ==
  /\ codec.composed /\ codec.decoded
  /\ Len(codec.uuid) = 2
  /\ \A i \in 1..Len(codec.uuid) : codec.uuid[i] # "/"
  /\ codec.out = codec.uuid

\* the positions of "/" in s
SlashPositions(s) == {i \in 1..Len(s) : s[i] = "/"}

\* C16: the decoder returns "" for an id that does not hold exactly one "/",
\* and the text after the "/" for an id that holds exactly one, whatever
\* the text before it
C16_DecodeByOneSlash ==
  codec.decoded =>
    LET at == SlashPositions(codec.tfID)
    IN IF Cardinality(at) # 1
       THEN codec.out = <<>>
       ELSE \A i \in at :
              codec.out = SubSeq(codec.tfID, i + 1, Len(codec.tfID))

\* an id with one "/" whose first segment is not "vaults"
C16_Witness ==
  /\ codec.decoded /\ ~codec.composed
  /\ Cardinality(SlashPositions(codec.tfID)) = 1
  /\ codec.tfID[1] = "a"
  /\ codec.out # <<>>

\* the last invocation was a Read that issued its client call for a row
\* whose id does not hold exactly one "/"
ReadOfMalformedId ==
  /\ call.op = "Read" /\ call.calls = 1
  /\ Cardinality(SlashPositions(ValueString(call.pre.row.ID))) # 1

\* C17 as stated: a Read of a row whose id is malformed removes the row and
\* emits no error diagnostic
C17_MalformedIdIsNotFound ==
  ReadOfMalformedId => (~state.present /\ diags = <<>>)

\* C17 as amended: a Read of a row whose id is malformed sends the empty
\* UUID to GetVault and follows the client's answer: on a not-found error
\* the row is removed and no diagnostic is emitted, on another error Read
\* emits the read-error diagnostic and keeps the row, and a returned vault
\* is written to the row
C17_MalformedIdFollowsClientAnswer ==
  ReadOfMalformedId =>
    /\ ReadRequest(call.pre.row) = <<>>
    /\ IF call.resp.err = Nil
       THEN state = RowOfVault(call.resp.vault) /\ diags = <<>>
       ELSE IF isNotFoundError(call.resp.err)
       THEN ~state.present /\ diags = <<>>
       ELSE /\ state = call.pre
            /\ diags = <<Diagnostic("1Password Vault read error", call.resp.err)>>

C17_Witness ==
  /\ ReadOfMalformedId
  /\ isNotFoundError(call.resp.err)
  /\ call.pre.present
  /\ ~state.present
  /\ diags = <<>>

\* C20: in every state row the UUID Read sends to GetVault (the id, decoded)
\* is the UUID Update and Delete send (the uuid field)
C20_HandlersAddressSameVault ==
  state.present =>
    /\ ReadRequest(state.row) = DeleteRequest(state.row)
    /\ \A config \in Configs :
         ReadRequest(state.row) = UpdateRequest(UpdatePlan(config, state.row)).ID

====
